---------------------------- MODULE Spec2Model ----------------------------
(***************************************************************************)
(* Glue parameters of the engine format (crates/xetex_format/src/          *)
(* gluepars.rs): the versioned registry GLUE_PARS, its two queries, and    *)
(* the two emitters that render a parameter list into C header text.       *)
(*                                                                         *)
(* Text is modelled as a sequence of one-character strings, so that the    *)
(* two name normalisations, the decimal rendering of an index and a sink   *)
(* that stops accepting bytes in the middle of a line are all computed     *)
(* rather than assumed.                                                    *)
(***************************************************************************)
EXTENDS Integers, Sequences, FiniteSets, TLC

(***************************************************************************)
(* Bounds of the model.                                                    *)
(***************************************************************************)
\* Format versions a caller asks for: 0..MaxVersion.
MaxVersion == 2

\* `since` stamps of the hypothetical registries: 0..MaxSince.
MaxSince == 1

\* Length of the hypothetical registries: 0..MaxRegLen entries.
MaxRegLen == 4

\* A caller passes the whole list it holds or a sub-slice of it from either
\* end of at most MaxSliceLen elements.
MaxSliceLen == 1

\* Sinks accept 0, CapStep, 2*CapStep, ..., MaxCapSteps*CapStep bytes before
\* their next write fails, or are unlimited.
CapStep == 70

MaxCapSteps == 2

\* Each emitter is run to completion at most MaxRuns times on the list the
\* caller holds (failed runs are not counted).
MaxRuns == 2

(***************************************************************************)
(* Characters.                                                             *)
(***************************************************************************)
Upper ==
    <<"A", "B", "C", "D", "E", "F", "G", "H", "I", "J", "K", "L", "M",
      "N", "O", "P", "Q", "R", "S", "T", "U", "V", "W", "X", "Y", "Z">>

Lower ==
    <<"a", "b", "c", "d", "e", "f", "g", "h", "i", "j", "k", "l", "m",
      "n", "o", "p", "q", "r", "s", "t", "u", "v", "w", "x", "y", "z">>

DecimalDigits ==
    <<"0", "1", "2", "3", "4", "5", "6", "7", "8", "9">>

\* str::to_lowercase on one character of an ASCII name.
ToLowerChar(c) ==
    IF \E k \in 1..Len(Upper) : Upper[k] = c
    THEN Lower[CHOOSE k \in 1..Len(Upper) : Upper[k] = c]
    ELSE c

\* par.name.to_lowercase(): every letter folded, every other character kept.
ToLowercase(s) ==
    [j \in 1..Len(s) |-> ToLowerChar(s[j])]

\* Faulty variant of ReplaceUnderscore: only the first underscore is dropped
\* (replacen(.., 1)).
ReplaceFirstUnderscore(s) ==
    IF \E j \in 1..Len(s) : s[j] = "_"
    THEN LET j == CHOOSE q \in 1..Len(s) : s[q] = "_" /\ \A r \in 1..(q - 1) : s[r] # "_"
         IN  SubSeq(s, 1, j - 1) \o SubSeq(s, j + 1, Len(s))
    ELSE s

\* par.name.replace("_", ""): every underscore dropped, the rest kept in order.
RECURSIVE ReplaceUnderscore(_)
ReplaceUnderscore(s) ==
    IF s = <<>> THEN <<>>
    ELSE IF Head(s) = "_" THEN ReplaceUnderscore(Tail(s))
    ELSE <<Head(s)>> \o ReplaceUnderscore(Tail(s))

\* Display of a usize through "{}": its decimal digits, no sign, no padding.
RECURSIVE Decimal(_)
Decimal(n) ==
    IF n < 10 THEN <<DecimalDigits[n + 1]>>
    ELSE Decimal(n \div 10) \o <<DecimalDigits[(n % 10) + 1]>>

(***************************************************************************)
(* The registry.                                                           *)
(***************************************************************************)
GlueParKind == {"Regular", "Math"}

Name_line_skip ==
    <<"l", "i", "n", "e", "_", "s", "k", "i", "p">>

Name_baseline_skip ==
    <<"b", "a", "s", "e", "l", "i", "n", "e", "_", "s", "k", "i", "p">>

Name_par_skip ==
    <<"p", "a", "r", "_", "s", "k", "i", "p">>

Name_above_display_skip ==
    <<"a", "b", "o", "v", "e", "_", "d", "i", "s", "p", "l", "a", "y", "_", "s", "k", "i", "p">>

Name_below_display_skip ==
    <<"b", "e", "l", "o", "w", "_", "d", "i", "s", "p", "l", "a", "y", "_", "s", "k", "i", "p">>

Name_above_display_short_skip ==
    <<"a", "b", "o", "v", "e", "_", "d", "i", "s", "p", "l", "a", "y", "_", "s", "h", "o", "r",
    "t", "_", "s", "k", "i", "p">>

Name_below_display_short_skip ==
    <<"b", "e", "l", "o", "w", "_", "d", "i", "s", "p", "l", "a", "y", "_", "s", "h", "o", "r",
    "t", "_", "s", "k", "i", "p">>

Name_left_skip ==
    <<"l", "e", "f", "t", "_", "s", "k", "i", "p">>

Name_right_skip ==
    <<"r", "i", "g", "h", "t", "_", "s", "k", "i", "p">>

Name_top_skip ==
    <<"t", "o", "p", "_", "s", "k", "i", "p">>

Name_split_top_skip ==
    <<"s", "p", "l", "i", "t", "_", "t", "o", "p", "_", "s", "k", "i", "p">>

Name_tab_skip ==
    <<"t", "a", "b", "_", "s", "k", "i", "p">>

Name_space_skip ==
    <<"s", "p", "a", "c", "e", "_", "s", "k", "i", "p">>

Name_xspace_skip ==
    <<"x", "s", "p", "a", "c", "e", "_", "s", "k", "i", "p">>

Name_par_fill_skip ==
    <<"p", "a", "r", "_", "f", "i", "l", "l", "_", "s", "k", "i", "p">>

Name_XeTeX_linebreak_skip ==
    <<"X", "e", "T", "e", "X", "_", "l", "i", "n", "e", "b", "r", "e", "a", "k", "_", "s", "k",
    "i", "p">>

Name_thin_mu_skip ==
    <<"t", "h", "i", "n", "_", "m", "u", "_", "s", "k", "i", "p">>

Name_med_mu_skip ==
    <<"m", "e", "d", "_", "m", "u", "_", "s", "k", "i", "p">>

Name_thick_mu_skip ==
    <<"t", "h", "i", "c", "k", "_", "m", "u", "_", "s", "k", "i", "p">>

\* A GluePar value.
GluePar(name, kind, since) ==
    [name |-> name, kind |-> kind, since |-> since]

GLUE_PARS ==
    <<
      GluePar(Name_line_skip, "Regular", 0),
      GluePar(Name_baseline_skip, "Regular", 0),
      GluePar(Name_par_skip, "Regular", 0),
      GluePar(Name_above_display_skip, "Regular", 0),
      GluePar(Name_below_display_skip, "Regular", 0),
      GluePar(Name_above_display_short_skip, "Regular", 0),
      GluePar(Name_below_display_short_skip, "Regular", 0),
      GluePar(Name_left_skip, "Regular", 0),
      GluePar(Name_right_skip, "Regular", 0),
      GluePar(Name_top_skip, "Regular", 0),
      GluePar(Name_split_top_skip, "Regular", 0),
      GluePar(Name_tab_skip, "Regular", 0),
      GluePar(Name_space_skip, "Regular", 0),
      GluePar(Name_xspace_skip, "Regular", 0),
      GluePar(Name_par_fill_skip, "Regular", 0),
      GluePar(Name_XeTeX_linebreak_skip, "Regular", 0),
      GluePar(Name_thin_mu_skip, "Math", 0),
      GluePar(Name_med_mu_skip, "Math", 0),
      GluePar(Name_thick_mu_skip, "Math", 0)
    >>

(***************************************************************************)
(* State.                                                                  *)
(*   registry  the compiled-in table the queries read (GLUE_PARS)          *)
(*   query     the last thing the caller did to obtain `pars`              *)
(*   pars      the parameter list the caller holds and passes on           *)
(*   stanza    the emit_c_header_stanza calls on `pars`: whether one was   *)
(*             made, how many returned Ok, and of the last one the sink    *)
(*             after the call and the value returned                       *)
(*   prims     the same for emit_c_header_primitives                       *)
(***************************************************************************)
VARIABLES registry, query, pars, stanza, prims

vars == <<registry, query, pars, stanza, prims>>

(***************************************************************************)
(* The queries.                                                            *)
(***************************************************************************)
\* FormatVersion is an unsigned integer (declared in the crate root).
Versions == 0..MaxVersion

\* pub fn get_latest_gluepars() -> &'static [GluePar]
get_latest_gluepars == registry

\* Faulty variants of Visible: the comparison strict, and the comparison
\* turned around.
VisibleStrict(version, p) == version > p.since

VisibleBefore(version, p) == version <= p.since

\* `if version >= p.since`
Visible(version, p) == version >= p.since

\* Faulty variant of Push: the element is inserted at the front.
PushFront(r, p) == <<p>> \o r

\* `r.push(*p)`
Push(r, p) == Append(r, p)

\* `for p in GLUE_PARS { if version >= p.since { r.push(*p) } }`, from the
\* i-th entry on.
RECURSIVE FilterLoop(_, _, _)
FilterLoop(version, i, r) ==
    IF i > Len(registry) THEN r
    ELSE FilterLoop(version, i + 1,
                    IF Visible(version, registry[i]) THEN Push(r, registry[i]) ELSE r)

\* pub fn get_gluepars_for_version(version: FormatVersion) -> Vec<GluePar>
get_gluepars_for_version(version) == FilterLoop(version, 1, <<>>)

(***************************************************************************)
(* Sinks.  A sink is any W: Write.  What the emitters can observe of it is *)
(* whether a writeln! succeeded; what the properties below speak of is the *)
(* bytes it accepted.  A limited sink accepts `cap` bytes and then fails   *)
(* the write that does not fit, with its error `err`, after taking the     *)
(* bytes that did fit (write_all writes until a write fails).              *)
(***************************************************************************)
ErrorKinds == {"StorageFull", "BrokenPipe"}

OkResult == [ok |-> TRUE, err |-> "none"]

ErrResult(e) == [ok |-> FALSE, err |-> e]

Caps == {k * CapStep : k \in 0..MaxCapSteps}

NewSink(limited, cap, err) ==
    [limited |-> limited, cap |-> cap, err |-> err,
     text |-> <<>>, writes |-> 0, failedAt |-> 0]

UnlimitedSink == NewSink(FALSE, 0, "none")

Sinks ==
    {UnlimitedSink} \cup {NewSink(TRUE, c, e) : c \in Caps, e \in ErrorKinds}

\* writeln!(stream, ...) of the already formatted `line`: the sink after the
\* call and the io::Result the macro evaluates to.
WriteLn(stream, line) ==
    LET room == IF stream.limited THEN stream.cap - Len(stream.text) ELSE Len(line)
        n    == stream.writes + 1
    IN  IF Len(line) <= room
        THEN [stream |-> [stream EXCEPT !.text = @ \o line, !.writes = n],
              result |-> OkResult]
        ELSE [stream |-> [stream EXCEPT !.text = @ \o SubSeq(line, 1, room),
                                        !.writes = n,
                                        !.failedAt = IF @ = 0 THEN n ELSE @],
              result |-> ErrResult(stream.err)]

\* Faulty variant of Returns: the io::Result of writeln! is dropped and the
\* function goes on.
NeverReturns(w) == FALSE

\* The `?` after a writeln!: whether the function returns here with the error.
Returns(w) == ~w.result.ok

(***************************************************************************)
(* emit_c_header_stanza                                                    *)
(***************************************************************************)
StanzaHeader ==
    <<"/", "*", " ", "G", "l", "u", "e", " ", "(", "\"", "s", "k", "i", "p", "\"", ")", " ",
    "p", "a", "r", "a", "m", "e", "t", "e", "r", "s", " ", "*", "/", "\n", "\n">>

DefinePrefix ==
    <<"#", "d", "e", "f", "i", "n", "e", " ", "G", "L", "U", "E", "_", "P", "A", "R", "_", "_">>

CountPrefix ==
    <<"#", "d", "e", "f", "i", "n", "e", " ", "G", "L", "U", "E", "_", "P", "A", "R", "S", " ">>

\* Faulty variants of EnumerateIndex: numbering from one, and numbering that
\* goes on from the lines the previous call wrote.
EnumerateFromOne(i) == i

EnumerateContinuing(i) == i - 1 + stanza.stream.writes

\* enumerate() numbers the elements from zero: the element at one-based
\* position i of the sequence has index i - 1.
EnumerateIndex(i) == i - 1

\* writeln!(stream, "#define GLUE_PAR__{} {}", par.name.to_lowercase(), index)
IdentLine(par, index) ==
    DefinePrefix \o ToLowercase(par.name) \o <<" ">> \o Decimal(index) \o <<"\n">>

\* Faulty variant of CountLine: the length of the registry, not of the input.
CountLineOfRegistry(p) ==
    CountPrefix \o Decimal(Len(GLUE_PARS)) \o <<"\n", "\n">>

\* writeln!(stream, "#define GLUE_PARS {}\n", pars.len())
CountLine(p) ==
    CountPrefix \o Decimal(Len(p)) \o <<"\n", "\n">>

\* `for (index, par) in pars.iter().enumerate() { writeln!(...)?; }`, from
\* the i-th element on.
RECURSIVE StanzaLoop(_, _, _)
StanzaLoop(p, i, stream) ==
    IF i > Len(p) THEN [stream |-> stream, result |-> OkResult]
    ELSE LET w == WriteLn(stream, IdentLine(p[i], EnumerateIndex(i)))
         IN  IF Returns(w) THEN w ELSE StanzaLoop(p, i + 1, w.stream)

\* pub fn emit_c_header_stanza<W: Write>(pars: &[GluePar], mut stream: W)
emit_c_header_stanza(p, stream) ==
    LET w1 == WriteLn(stream, StanzaHeader)
    IN  IF Returns(w1) THEN w1
        ELSE LET w2 == StanzaLoop(p, 1, w1.stream)
             IN  IF Returns(w2) THEN w2
                 ELSE LET w3 == WriteLn(w2.stream, CountLine(p))
                      IN  IF Returns(w3) THEN w3
                          ELSE [stream |-> w3.stream, result |-> OkResult]

(***************************************************************************)
(* emit_c_header_primitives                                                *)
(***************************************************************************)
ASSIGN_GLUE ==
    <<"A", "S", "S", "I", "G", "N", "_", "G", "L", "U", "E">>

ASSIGN_MU_GLUE ==
    <<"A", "S", "S", "I", "G", "N", "_", "M", "U", "_", "G", "L", "U", "E">>

RecordOpen ==
    <<" ", " ", " ", " ", "{", " ", "\"">>

RecordAfterName ==
    <<"\"", ",", " ">>

RecordAfterCmd ==
    <<",", " ", "G", "L", "U", "E", "_", "B", "A", "S", "E", " ", "+", " ", "G", "L", "U", "E",
    "_", "P", "A", "R", "_", "_">>

RecordClose ==
    <<",", " ", "x", "f", "_", "p", "r", "i", "m", "_", "i", "n", "i", "t", "_", "n", "o", "n",
    "e", " ", "}", ",", " ", "\\", "\n">>

\* Faulty variant of Cmd: Math falls into the Regular arm.
CmdAlwaysGlue(kind) == ASSIGN_GLUE

\* `match par.kind { Regular => "ASSIGN_GLUE", Math => "ASSIGN_MU_GLUE" }`
Cmd(kind) ==
    CASE kind = "Regular" -> ASSIGN_GLUE
      [] kind = "Math"    -> ASSIGN_MU_GLUE

\* Faulty variant of RecordLine: the identifier is built from the stripped
\* name.
RecordLineStrippedKey(par) ==
    RecordOpen \o ReplaceUnderscore(par.name) \o RecordAfterName \o Cmd(par.kind)
               \o RecordAfterCmd \o ToLowercase(ReplaceUnderscore(par.name)) \o RecordClose

\* writeln!(stream, "    {{ \"{}\", {}, GLUE_BASE + GLUE_PAR__{}, xf_prim_init_none }}, \\",
\*          par.name.replace("_", ""), cmd, par.name.to_lowercase())
RecordLine(par) ==
    RecordOpen \o ReplaceUnderscore(par.name) \o RecordAfterName \o Cmd(par.kind)
               \o RecordAfterCmd \o ToLowercase(par.name) \o RecordClose

\* `for par in pars { ...; writeln!(...)?; }`, from the i-th element on.
RECURSIVE PrimitivesLoop(_, _, _)
PrimitivesLoop(p, i, stream) ==
    IF i > Len(p) THEN [stream |-> stream, result |-> OkResult]
    ELSE LET w == WriteLn(stream, RecordLine(p[i]))
         IN  IF Returns(w) THEN w ELSE PrimitivesLoop(p, i + 1, w.stream)

\* pub fn emit_c_header_primitives<W: Write>(pars: &[GluePar], mut stream: W)
emit_c_header_primitives(p, stream) ==
    LET w == PrimitivesLoop(p, 1, stream)
    IN  IF Returns(w) THEN w ELSE [stream |-> w.stream, result |-> OkResult]

(***************************************************************************)
(* The state machine.  A caller queries the registry, may narrow the list  *)
(* to a sub-slice, and runs the emitters on the list it holds, each run on *)
(* a sink of its own.  Obtaining another list starts over with no emitter  *)
(* run on it yet.                                                          *)
(***************************************************************************)
NotRun == [called |-> FALSE, okRuns |-> 0, stream |-> UnlimitedSink, result |-> OkResult]

\* The record of one more call that ended as `w`.
Ran(slot, w) ==
    [called |-> TRUE,
     okRuns |-> slot.okRuns + (IF w.result.ok THEN 1 ELSE 0),
     stream |-> w.stream,
     result |-> w.result]

\* Registries a later release could ship: entries of GLUE_PARS from
\* par_fill_skip on (a mixed-case name, both kinds), stamped with later
\* versions in every order.
FutureBase ==
    (CHOOSE i \in 1..Len(GLUE_PARS) : GLUE_PARS[i].name = Name_par_fill_skip) - 1

FutureRegistries ==
    UNION {
      { [i \in 1..n |-> GluePar(GLUE_PARS[FutureBase + i].name,
                                GLUE_PARS[FutureBase + i].kind, stamps[i])]
        : stamps \in [1..n -> 0..MaxSince] }
      : n \in 0..MaxRegLen }

Init ==
    /\ registry = GLUE_PARS
    /\ query = [fn |-> "none", version |-> 0]
    /\ pars = <<>>
    /\ stanza = NotRun
    /\ prims = NotRun

InitAnyRegistry ==
    /\ registry \in {GLUE_PARS} \cup FutureRegistries
    /\ query = [fn |-> "none", version |-> 0]
    /\ pars = <<>>
    /\ stanza = NotRun
    /\ prims = NotRun

GetLatest ==
    /\ query' = [fn |-> "latest", version |-> 0]
    /\ pars' = get_latest_gluepars
    /\ stanza' = NotRun
    /\ prims' = NotRun
    /\ UNCHANGED registry

GetForVersion(version) ==
    /\ query' = [fn |-> "for_version", version |-> version]
    /\ pars' = get_gluepars_for_version(version)
    /\ stanza' = NotRun
    /\ prims' = NotRun
    /\ UNCHANGED registry

\* The caller narrows its list to &pars[from..to], taken from either end.
CallerSlice(from, to) ==
    /\ query.fn # "none"
    /\ from <= to
    /\ to - from <= MaxSliceLen
    /\ from = 0 \/ to = Len(pars)
    /\ to - from < Len(pars)
    /\ query' = [fn |-> "slice", version |-> 0]
    /\ pars' = SubSeq(pars, from + 1, to)
    /\ stanza' = NotRun
    /\ prims' = NotRun
    /\ UNCHANGED registry

EmitStanza(sink) ==
    /\ query.fn # "none"
    /\ stanza.okRuns < MaxRuns
    /\ stanza' = Ran(stanza, emit_c_header_stanza(pars, sink))
    /\ UNCHANGED <<registry, query, pars, prims>>

EmitPrimitives(sink) ==
    /\ query.fn # "none"
    /\ prims.okRuns < MaxRuns
    /\ prims' = Ran(prims, emit_c_header_primitives(pars, sink))
    /\ UNCHANGED <<registry, query, pars, stanza>>

Next ==
    \/ GetLatest
    \/ \E version \in Versions : GetForVersion(version)
    \/ \E from \in 0..Len(pars), to \in 0..Len(pars) : CallerSlice(from, to)
    \/ \E sink \in Sinks : EmitStanza(sink)
    \/ \E sink \in Sinks : EmitPrimitives(sink)

Spec == Init /\ [][Next]_vars

\* The queries alone, over every registry: the emitters read no registry.
NextQuery ==
    \/ GetLatest
    \/ \E version \in Versions : GetForVersion(version)

SpecAnyRegistry == InitAnyRegistry /\ [][NextQuery]_vars

(***************************************************************************)
(* Reading the emitted text back.  These operators parse what a sink holds *)
(* the way a C preprocessor or a reader of the header would: by lines, by  *)
(* blanks and commas, and by the value of a decimal numeral.               *)
(***************************************************************************)
\* The k-th smallest element of a set of integers.
Nth(S, k) == CHOOSE i \in S : Cardinality({j \in S : j < i}) = k - 1

\* The pieces of t between the occurrences of the character ch.
Split(t, ch) ==
    LET P == {i \in 1..Len(t) : t[i] = ch}
        n == Cardinality(P)
    IN  [k \in 1..(n + 1) |->
            SubSeq(t, IF k = 1 THEN 1 ELSE Nth(P, k - 1) + 1,
                      IF k = n + 1 THEN Len(t) ELSE Nth(P, k) - 1)]

\* The lines of a text in which every line is newline-terminated.
Lines(t) ==
    LET pieces == Split(t, "\n")
    IN  SubSeq(pieces, 1, Len(pieces) - 1)

HasPrefix(s, p) == Len(s) >= Len(p) /\ SubSeq(s, 1, Len(p)) = p

IsProperPrefix(p, s) == Len(p) < Len(s) /\ SubSeq(s, 1, Len(p)) = p

Strip(s, p) == SubSeq(s, Len(p) + 1, Len(s))

\* A decimal numeral as C reads it: digits only, no leading zero.
IsNumeral(d) ==
    /\ d # <<>>
    /\ \A j \in 1..Len(d) : \E k \in 1..Len(DecimalDigits) : DecimalDigits[k] = d[j]
    /\ Len(d) > 1 => d[1] # "0"

DigitValue(c) == (CHOOSE k \in 1..Len(DecimalDigits) : DecimalDigits[k] = c) - 1

RECURSIVE NatOf(_)
NatOf(d) ==
    IF d = <<>> THEN 0
    ELSE 10 * NatOf(SubSeq(d, 1, Len(d) - 1)) + DigitValue(d[Len(d)])

\* a is b with some elements left out, the rest in b's order.
RECURSIVE IsSubsequence(_, _)
IsSubsequence(a, b) ==
    IF a = <<>> THEN TRUE
    ELSE IF b = <<>> THEN FALSE
    ELSE IF Head(a) = Head(b) THEN IsSubsequence(Tail(a), Tail(b))
    ELSE IsSubsequence(a, Tail(b))

\* key is name with every letter folded to lowercase and all else kept.
IsLowercaseOf(key, name) ==
    /\ Len(key) = Len(name)
    /\ \A j \in 1..Len(name) :
          IF \E k \in 1..Len(Upper) : Upper[k] = name[j]
          THEN \E k \in 1..Len(Upper) : Upper[k] = name[j] /\ key[j] = Lower[k]
          ELSE key[j] = name[j]

\* lit is name with every underscore left out and all else kept, in order.
IsUnderscoreFreeOf(lit, name) ==
    LET keep == {j \in 1..Len(name) : name[j] # "_"}
    IN  /\ Len(lit) = Cardinality(keep)
        /\ \A j \in keep : lit[Cardinality({q \in keep : q <= j})] = name[j]

\* The identifier block a completed emit_c_header_stanza left in its sink.
StanzaDone == stanza.called /\ stanza.result.ok

StanzaLines == Lines(stanza.stream.text)

\* Where among the lines L the identifier lines and the count lines are.
IdentAt(L) == {k \in 1..Len(L) : HasPrefix(L[k], DefinePrefix)}

CountAt(L) == {k \in 1..Len(L) : HasPrefix(L[k], CountPrefix)}

\* <<key, numeral>> of an identifier line.
IdentFields(line) == Split(Strip(line, DefinePrefix), " ")

\* The initializer block a completed emit_c_header_primitives left.
PrimsDone == prims.called /\ prims.result.ok

PrimsLines == Lines(prims.stream.text)

ReferencePrefix ==
    <<" ", "G", "L", "U", "E", "_", "B", "A", "S", "E", " ", "+", " ", "G", "L", "U", "E", "_",
    "P", "A", "R", "_", "_">>

\* The comma-separated fields of a record line.
RecordFields(line) == Split(line, ",")

\* A record line has the shape `    { "<literal>", <tag>, GLUE_BASE + GLUE_PAR__<key>, ... }, \`.
IsRecord(line) ==
    LET f == RecordFields(line)
    IN  /\ Len(f) = 5
        /\ HasPrefix(f[1], RecordOpen)
        /\ Len(f[1]) > Len(RecordOpen)
        /\ f[1][Len(f[1])] = "\""
        /\ HasPrefix(f[2], <<" ">>)
        /\ HasPrefix(f[3], ReferencePrefix)

RecordLiteral(line) ==
    LET f == RecordFields(line)
    IN  SubSeq(f[1], Len(RecordOpen) + 1, Len(f[1]) - 1)

RecordTag(line) == Strip(RecordFields(line)[2], <<" ">>)

RecordKey(line) == Strip(RecordFields(line)[3], ReferencePrefix)

(***************************************************************************)
(* The queries, over every registry (SpecAnyRegistry).                     *)
(***************************************************************************)
\* Positions of the registry entries a query at the last queried version sees.
VisibleAt == {i \in 1..Len(registry) : registry[i].since <= query.version}

\* C1: get_gluepars_for_version(v) returns exactly the registry's descriptors
\* whose `since` is <= v, each once and in registry order: the k-th element of
\* the result is the k-th registry entry with since <= v, and there are no
\* other elements.
C1_FilterIsExact ==
    query.fn = "for_version" =>
        /\ Len(pars) = Cardinality(VisibleAt)
        /\ \A k \in 1..Len(pars) : pars[k] = registry[Nth(VisibleAt, k)]

\* C1 witness: a query that left an entry out between two it returned.
C1_Witness ==
    /\ query.fn = "for_version"
    /\ Len(pars) >= 2
    /\ \E i, j, k \in 1..Len(registry) :
          /\ i < j /\ j < k
          /\ i \in VisibleAt /\ j \notin VisibleAt /\ k \in VisibleAt

\* C3: for versions v1 <= v2 the result for v1 is an order-preserving
\* subsequence of the result for v2, whatever the registry holds: the list
\* the last query returned is a subsequence of the result for every later
\* version and has the result for every earlier version as a subsequence.
C3_MonotonicInclusion ==
    query.fn = "for_version" =>
        \A v \in Versions :
            /\ query.version <= v => IsSubsequence(pars, get_gluepars_for_version(v))
            /\ v <= query.version => IsSubsequence(get_gluepars_for_version(v), pars)

\* C3 witness: a query whose result is strictly shorter than that of a later
\* version, over a registry with entries introduced after version 0.
C3_Witness ==
    /\ query.fn = "for_version"
    /\ Len(pars) >= 2
    /\ \E v \in Versions :
          query.version < v /\ Len(get_gluepars_for_version(v)) > Len(pars)

\* C4: for every version at or past the largest `since` of the registry,
\* get_gluepars_for_version returns the list get_latest_gluepars returns,
\* element for element; with the table as shipped, every version from 0 on
\* returns all 19 descriptors in declaration order.
C4_LatestIsTopVersion ==
    /\ (query.fn = "for_version" /\ VisibleAt = 1..Len(registry))
          => pars = get_latest_gluepars
    /\ (query.fn = "for_version" /\ registry = GLUE_PARS)
          => Len(pars) = 19 /\ pars = GLUE_PARS

\* C4 witness: a query at exactly the largest `since` of a registry that has
\* entries introduced after version 0.
C4_Witness ==
    /\ query.fn = "for_version"
    /\ query.version > 0
    /\ Len(registry) >= 2
    /\ \A i \in 1..Len(registry) : registry[i].since <= query.version
    /\ \E i \in 1..Len(registry) : registry[i].since = query.version
    /\ Len(pars) = Len(registry)

(***************************************************************************)
(* emit_c_header_stanza (Spec).                                            *)
(***************************************************************************)
\* C2: identifier assignment is positional.  A completed call leaves exactly
\* one `#define GLUE_PAR__<key> <n>` line per input element, the lines follow
\* the two header lines in input order, the key of the i-th is the lowercased
\* name of the i-th element and its numeral has the value i (counted from
\* zero), whatever the element's name, kind or `since`.
C2_IdentifiersArePositional ==
    StanzaDone =>
        LET L == StanzaLines
        IN  /\ IdentAt(L) = {2 + i : i \in 1..Len(pars)}
            /\ \A i \in 1..Len(pars) :
                  LET f == IdentFields(L[2 + i])
                  IN  /\ Len(f) = 2
                      /\ f[1] = ToLowercase(pars[i].name)
                      /\ IsNumeral(f[2])
                      /\ NatOf(f[2]) = i - 1

\* C2 witness: a completed call on a list whose first element is not the
\* registry's first and is a Math parameter.
C2_Witness ==
    /\ StanzaDone
    /\ Len(pars) >= 1
    /\ pars[1] # registry[1]
    /\ pars[1].kind = "Math"
    /\ IdentAt(StanzaLines) # {}

\* C5: a completed call leaves exactly one `#define GLUE_PARS <n>` line, it
\* comes after every identifier line, and n is the length of the input: 19
\* for the full registry, 0 for an empty input, which has no identifier line.
C5_CountLineIsLength ==
    StanzaDone =>
        LET L == StanzaLines
            n == Strip(L[Len(pars) + 3], CountPrefix)
        IN  /\ CountAt(L) = {Len(pars) + 3}
            /\ \A k \in IdentAt(L) : k < Len(pars) + 3
            /\ IsNumeral(n)
            /\ NatOf(n) = Len(pars)
            /\ pars = GLUE_PARS => n = <<"1", "9">>
            /\ pars = <<>> => n = <<"0">> /\ IdentAt(L) = {}

\* C5 witness: a completed call on the full registry.
C5_Witness ==
    /\ StanzaDone
    /\ pars = GLUE_PARS
    /\ Cardinality(IdentAt(StanzaLines)) = 19

\* C5, the other named case: a completed call on an empty input.
C5_EmptyInputReached ==
    StanzaDone /\ pars = <<>>

(***************************************************************************)
(* emit_c_header_primitives (Spec).                                        *)
(***************************************************************************)
\* C6: the kind-to-tag mapping is total and correct.  A completed call leaves
\* one record per input element, in input order (the i-th record refers to
\* the i-th element's identifier); its tag is ASSIGN_GLUE exactly when the
\* element is Regular and ASSIGN_MU_GLUE exactly when it is Math.  On the
\* full registry the last three records carry ASSIGN_MU_GLUE and the first
\* sixteen ASSIGN_GLUE.
C6_KindToTag ==
    PrimsDone =>
        LET L == PrimsLines
        IN  /\ Len(L) = Len(pars)
            /\ \A i \in 1..Len(pars) :
                  /\ IsRecord(L[i])
                  /\ RecordKey(L[i]) = ToLowercase(pars[i].name)
                  /\ RecordTag(L[i]) = ASSIGN_GLUE <=> pars[i].kind = "Regular"
                  /\ RecordTag(L[i]) = ASSIGN_MU_GLUE <=> pars[i].kind = "Math"
            /\ pars = GLUE_PARS =>
                  /\ {i \in 1..Len(L) : RecordTag(L[i]) = ASSIGN_MU_GLUE} = 17..19
                  /\ {i \in 1..Len(L) : RecordTag(L[i]) = ASSIGN_GLUE} = 1..16

\* C6 witness: a completed call on the full registry.
C6_Witness ==
    /\ PrimsDone
    /\ pars = GLUE_PARS
    /\ Len(PrimsLines) = 19

(***************************************************************************)
(* Both emitters (Spec).                                                   *)
(***************************************************************************)
\* What C7 says of one call: `slot` is the emitter's record, `full` the text
\* a call on the same input leaves in a sink that never fails.
AbortsOnWriteFailure(slot, full) ==
    slot.called =>
        /\ slot.result.ok <=> slot.stream.failedAt = 0
        /\ slot.result.ok => slot.result = OkResult
        /\ ~slot.result.ok =>
              /\ slot.result = ErrResult(slot.stream.err)
              /\ slot.stream.err \in ErrorKinds
              /\ slot.stream.writes = slot.stream.failedAt
              /\ IsProperPrefix(slot.stream.text, full)

\* C7: when a write to the sink fails, the call returns the sink's error, the
\* failing write is the last write made to the sink, and the text the sink
\* accepted is a proper prefix of what a fully successful call produces; a
\* call returns Ok exactly when no write failed.
C7_WriteFailureAborts ==
    /\ AbortsOnWriteFailure(stanza,
                            emit_c_header_stanza(pars, UnlimitedSink).stream.text)
    /\ AbortsOnWriteFailure(prims,
                            emit_c_header_primitives(pars, UnlimitedSink).stream.text)

\* C7 witness: both emitters failed in their loops, on sinks that had
\* accepted text, the stanza in the middle of a line.
C7_Witness ==
    /\ stanza.called /\ ~stanza.result.ok
    /\ stanza.stream.failedAt >= 3
    /\ stanza.stream.text # <<>>
    /\ stanza.stream.text[Len(stanza.stream.text)] # "\n"
    /\ prims.called /\ ~prims.result.ok
    /\ prims.stream.failedAt >= 2
    /\ prims.stream.text # <<>>

XeTeXKey ==
    <<"x", "e", "t", "e", "x", "_", "l", "i", "n", "e", "b", "r", "e", "a", "k", "_", "s", "k",
    "i", "p">>

XeTeXLiteral ==
    <<"X", "e", "T", "e", "X", "l", "i", "n", "e", "b", "r", "e", "a", "k", "s", "k", "i", "p">>

\* C8: the two name normalisations.  The key, in the identifier line and in
\* the record's reference, is the name with its letters folded to lowercase
\* and its underscores kept; the quoted literal of the record is the name
\* with its underscores removed and its case kept.  "XeTeX_linebreak_skip"
\* gives the key xetex_linebreak_skip and the literal "XeTeXlinebreakskip".
C8_TwoNormalizations ==
    /\ StanzaDone =>
          LET L == StanzaLines
          IN  \A i \in 1..Len(pars) :
                  LET key == IdentFields(L[2 + i])[1]
                  IN  /\ IsLowercaseOf(key, pars[i].name)
                      /\ pars[i].name = Name_XeTeX_linebreak_skip => key = XeTeXKey
    /\ PrimsDone =>
          LET L == PrimsLines
          IN  \A i \in 1..Len(pars) :
                  /\ IsRecord(L[i])
                  /\ IsLowercaseOf(RecordKey(L[i]), pars[i].name)
                  /\ IsUnderscoreFreeOf(RecordLiteral(L[i]), pars[i].name)
                  /\ pars[i].name = Name_XeTeX_linebreak_skip =>
                        /\ RecordKey(L[i]) = XeTeXKey
                        /\ RecordLiteral(L[i]) = XeTeXLiteral

\* C8 witness: both emitters completed on a list that holds
\* XeTeX_linebreak_skip.
C8_Witness ==
    /\ StanzaDone
    /\ PrimsDone
    /\ \E i \in 1..Len(pars) : pars[i].name = Name_XeTeX_linebreak_skip

\* C9: generated from the same get_gluepars_for_version(v) result, the two
\* blocks agree: the identifier the i-th record refers to is defined by
\* exactly one identifier line, and that line's value is i (counted from
\* zero); the names of the list stay pairwise distinct when lowercased.
C9_BlocksAgree ==
    (query.fn = "for_version" /\ StanzaDone /\ PrimsDone) =>
        LET SL == StanzaLines
            PL == PrimsLines
            I  == IdentAt(SL)
        IN  /\ Len(PL) = Len(pars)
            /\ \A i, j \in 1..Len(pars) :
                  i # j => ToLowercase(pars[i].name) # ToLowercase(pars[j].name)
            /\ \A i \in 1..Len(PL) :
                  /\ IsRecord(PL[i])
                  /\ LET key == RecordKey(PL[i])
                         M   == {k \in I : IdentFields(SL[k])[1] = key}
                     IN  /\ Cardinality(M) = 1
                         /\ \A k \in M : NatOf(IdentFields(SL[k])[2]) = i - 1

\* C9 witness: both blocks completed on the result of a query for a version
\* past 0.
C9_Witness ==
    /\ query.fn = "for_version"
    /\ query.version > 0
    /\ StanzaDone
    /\ PrimsDone
    /\ Len(pars) >= 2

=============================================================================
